---- MODULE Spec2Model ----
(***************************************************************************)
(* Chunked time-series storage (mark_storage.py): a ChunkWriter buffers    *)
(* packets and flushes them to one parquet chunk file plus one row of      *)
(* index.csv; cmd_read prunes chunks with the index and filters rows;      *)
(* cmd_write feeds the writer from a length-prefixed byte stream.          *)
(*                                                                         *)
(* A numpy array is modelled run-length encoded along its first axis: a    *)
(* sequence of runs [v |-> value, n |-> number of consecutive particles].  *)
(* Timestamps are whole epoch units; what str() and the CSV writer print   *)
(* for the float t is ToString(t) \o ".0".                                 *)
(***************************************************************************)
EXTENDS Integers, Sequences, FiniteSets, TLC

VARIABLES
    buffer,               \* ChunkWriter._buffer: three lists of arrays
    particle_counter,     \* ChunkWriter._particle_counter
    chunks,               \* storage directory: parquet file name -> data frame
    index_csv,            \* storage directory: index.csv, [exists, lines]
    raised,               \* exception that left the last call, or "none"
    last_call,            \* name of the last call made
    read_out,             \* the last cmd_read: its window and what it did
    ingested,             \* history: packets handed to add_packet by the live writer
    writers,              \* history: number of ChunkWriter objects constructed
    discarded,            \* history: a writer was dropped with packets still buffered
    flushes,              \* history: the buffer contents each performed flush wrote
    stream,               \* sys.stdin.buffer: the bytes of the input stream
    pos,                  \* number of bytes of the stream already consumed
    pc,                   \* position inside cmd_write, "api" outside of it
    packets_written,      \* cmd_write local
    total_bytes_received, \* cmd_write local
    stderr                \* what cmd_write printed to stderr

vars == <<buffer, particle_counter, chunks, index_csv, raised, last_call, read_out,
          ingested, writers, discarded, flushes, stream, pos, pc, packets_written,
          total_bytes_received, stderr>>

storage == <<chunks, index_csv>>
writer == <<buffer, particle_counter>>
stdin_vars == <<stream, pos, pc, packets_written, total_bytes_received, stderr>>

----------------------------------------------------------------------------
(* Bounds and constants *)

CHUNK_PARTICLES == 200000

MaxTs == 2
MaxPackets == 2
MaxWriters == 2
RunParticles == 100000
ScatRows == 2
ScatCols == 2
SpecRows == 1
SpecCols == 2
MaxFrames == 2
PickleLen == 2

TsValues == 1..MaxTs
NaN == "NaN"

----------------------------------------------------------------------------
(* Arrays *)

RECURSIVE Shape0(_)
Shape0(arr) == IF arr = <<>> THEN 0 ELSE Head(arr).n + Shape0(Tail(arr))

RECURSIVE Concatenate(_)
Concatenate(arrays) ==
    IF arrays = <<>> THEN <<>> ELSE Head(arrays) \o Concatenate(Tail(arrays))

RECURSIVE FlattenRows(_)
FlattenRows(m) == IF m = <<>> THEN <<>> ELSE Head(m) \o FlattenRows(Tail(m))

\* arr.reshape(arr.shape[0], -1): every particle's matrix becomes one row-major row
Reshape(arr) == [i \in 1..Len(arr) |-> [v |-> FlattenRows(arr[i].v), n |-> arr[i].n]]

RECURSIVE ArrayMin(_)
ArrayMin(arr) ==
    IF Len(arr) = 1 THEN arr[1].v
    ELSE LET m == ArrayMin(Tail(arr)) IN IF arr[1].v <= m THEN arr[1].v ELSE m

RECURSIVE ArrayMax(_)
ArrayMax(arr) ==
    IF Len(arr) = 1 THEN arr[1].v
    ELSE LET m == ArrayMax(Tail(arr)) IN IF arr[1].v >= m THEN arr[1].v ELSE m

----------------------------------------------------------------------------
(* data_generator.generate_packet *)

\* the matrix of run `run` of the packet with serial number `serial`
RandomMatrix(serial, run, rows, cols, base) ==
    [i \in 1..rows |-> [j \in 1..cols |->
        base + 1000 * serial + 100 * run + (i - 1) * cols + j]]

\* a record: the runs carry the timestamps tss, RunParticles particles each
generate_packet(tss, serial) ==
    [timestamps |-> [i \in 1..Len(tss) |-> [v |-> tss[i], n |-> RunParticles]],
     scattering |-> [i \in 1..Len(tss) |->
                        [v |-> RandomMatrix(serial, i, ScatRows, ScatCols, 0),
                         n |-> RunParticles]],
     spectral   |-> [i \in 1..Len(tss) |->
                        [v |-> RandomMatrix(serial, i, SpecRows, SpecCols, 50),
                         n |-> RunParticles]]]

TsSeqs == {<<t>> : t \in TsValues} \cup {<<t, u>> : t \in TsValues, u \in TsValues}

\* a malformed record: ks runs of scattering and kp runs of spectral
MismatchedPacket(tss, ks, kp, serial) ==
    [timestamps |-> [i \in 1..Len(tss) |-> [v |-> tss[i], n |-> RunParticles]],
     scattering |-> [i \in 1..ks |->
                        [v |-> RandomMatrix(serial, i, ScatRows, ScatCols, 0),
                         n |-> RunParticles]],
     spectral   |-> [i \in 1..kp |->
                        [v |-> RandomMatrix(serial, i, SpecRows, SpecCols, 50),
                         n |-> RunParticles]]]

\* the leading dimension of a matrix differs from the number of timestamps
Mismatched(packet) ==
    \/ Shape0(packet.scattering) # Shape0(packet.timestamps)
    \/ Shape0(packet.spectral) # Shape0(packet.timestamps)

\* pickle.dumps(packet): PickleLen bytes that only together give the record back
Pickle(packet) == [i \in 1..PickleLen |-> [obj |-> packet, part |-> i]]

\* pickle.loads(payload)
Unpickle(payload) == payload[1].obj

\* struct.pack(">I", length)
PackU32(length) ==
    <<(length \div 16777216) % 256, (length \div 65536) % 256,
      (length \div 256) % 256, length % 256>>

\* struct.unpack(">I", header)
UnpackU32(header) ==
    ((header[1] * 256 + header[2]) * 256 + header[3]) * 256 + header[4]

\* what data_generator.main writes to stdout for one packet
Frame(packet) == PackU32(Len(Pickle(packet))) \o Pickle(packet)

FrameLen == 4 + PickleLen

RECURSIVE Encode(_)
Encode(packets) ==
    IF packets = <<>> THEN <<>> ELSE Frame(Head(packets)) \o Encode(Tail(packets))

\* the streams of up to MaxFrames frames, whole or cut off after any byte
Streams ==
    LET shapes == UNION {[1..k -> TsSeqs] : k \in 0..MaxFrames}
        bytes(shape) == Encode([i \in 1..Len(shape) |-> generate_packet(shape[i], i)])
    IN {SubSeq(bytes(pair[1]), 1, pair[2]) : pair \in
            {q \in shapes \X (0..(MaxFrames * FrameLen)) :
                q[2] <= Len(q[1]) * FrameLen}}

----------------------------------------------------------------------------
(* pandas *)

Advance(arr, m) ==
    IF arr = <<>> THEN <<>>
    ELSE IF arr[1].n = m THEN Tail(arr)
    ELSE <<[v |-> arr[1].v, n |-> arr[1].n - m]>> \o Tail(arr)

MinOf(S) == CHOOSE x \in S : \A y \in S : x <= y

\* pd.concat([df_ts, df_scat, df_spec], axis=1): the columns are joined on the
\* row number, a column that is too short is padded with NaN
RECURSIVE PdConcat(_, _, _)
PdConcat(ts, sc, sp) ==
    IF ts = <<>> /\ sc = <<>> /\ sp = <<>> THEN <<>>
    ELSE LET head(a) == IF a = <<>> THEN {} ELSE {a[1].n}
             m == MinOf(head(ts) \cup head(sc) \cup head(sp))
             cell(a) == IF a = <<>> THEN NaN ELSE a[1].v
         IN <<[ts_0 |-> cell(ts), scat |-> cell(sc), spec |-> cell(sp), n |-> m]>>
            \o PdConcat(Advance(ts, m), Advance(sc, m), Advance(sp, m))

\* what str() and DataFrame.to_csv write for the float t
FloatStr(t) == ToString(t) \o ".0"

\* what read_csv reads back from a float cell
ParseFloat(s) == CHOOSE t \in 0..(MaxTs + 1) : FloatStr(t) = s

CsvHeader == <<"filename", "min_ts", "max_ts">>

\* faulty variant: the index is opened with mode="w" and rewritten by every flush
ToCsv_overwrite(idx, header, line) == [exists |-> TRUE, lines |-> <<CsvHeader, line>>]

\* DataFrame.to_csv(index_path, mode="a", header=..., index=False)
ToCsv(idx, header, line) ==
    [exists |-> TRUE,
     lines |-> idx.lines \o (IF header THEN <<CsvHeader>> ELSE <<>>) \o <<line>>]

\* pd.read_csv: the first line names the columns, the float cells are parsed
ReadCsv(idx) ==
    LET col(name) == CHOOSE k \in 1..Len(idx.lines[1]) : idx.lines[1][k] = name
    IN [i \in 1..(Len(idx.lines) - 1) |->
           [filename |-> idx.lines[i + 1][col("filename")],
            min_ts |-> ParseFloat(idx.lines[i + 1][col("min_ts")]),
            max_ts |-> ParseFloat(idx.lines[i + 1][col("max_ts")])]]

\* faulty variant: a chunk file that exists already is kept as it is
ToParquet_keep(ch, filename, df) == ch @@ (filename :> df)

\* DataFrame.to_parquet(path): creates the file or replaces the one of that name
ToParquet(ch, filename, df) == (filename :> df) @@ ch

----------------------------------------------------------------------------
(* ChunkWriter *)

EmptyBuffer == [timestamps |-> <<>>, scattering |-> <<>>, spectral |-> <<>>]

NoIndex == [exists |-> FALSE, lines |-> <<>>]

\* faulty variant: the threshold test written with > instead of >=
ReachedThreshold_strict(counter) == counter > CHUNK_PARTICLES

\* the test of add_packet that triggers the automatic flush
ReachedThreshold(counter) == counter >= CHUNK_PARTICLES

ChunkFileName(timestamp_buffer) == FloatStr(timestamp_buffer[1].v) \o ".parquet"

IndexLine(filename, timestamp_buffer) ==
    <<filename, FloatStr(ArrayMin(timestamp_buffer)), FloatStr(ArrayMax(timestamp_buffer))>>

ChunkFrame(buf) ==
    PdConcat(Concatenate(buf.timestamps),
             Reshape(Concatenate(buf.scattering)),
             Reshape(Concatenate(buf.spectral)))

\* faulty variant: the counter is reset after a flush, the buffer is not
flush_keeps_buffer(buf, counter, ch, idx) ==
    IF counter = 0 \/ Concatenate(buf.timestamps) = <<>>
    THEN [raised |-> IF counter = 0 THEN "none" ELSE "IndexError", buffer |-> buf,
          particle_counter |-> counter, chunks |-> ch, index_csv |-> idx]
    ELSE LET timestamp_buffer == Concatenate(buf.timestamps)
             filename == ChunkFileName(timestamp_buffer)
         IN [raised |-> "none", buffer |-> buf, particle_counter |-> 0,
             chunks |-> ToParquet(ch, filename, ChunkFrame(buf)),
             index_csv |-> ToCsv(idx, ~idx.exists,
                                 IndexLine(filename, timestamp_buffer))]

\* faulty variant: flush without the early return on a zero counter;
\* np.concatenate of an empty list raises ValueError
flush_unguarded(buf, counter, ch, idx) ==
    IF buf.timestamps = <<>>
    THEN [raised |-> "ValueError", buffer |-> buf, particle_counter |-> counter,
          chunks |-> ch, index_csv |-> idx]
    ELSE LET timestamp_buffer == Concatenate(buf.timestamps)
             filename == ChunkFileName(timestamp_buffer)
         IN [raised |-> "none", buffer |-> EmptyBuffer, particle_counter |-> 0,
             chunks |-> ToParquet(ch, filename, ChunkFrame(buf)),
             index_csv |-> ToCsv(idx, ~idx.exists,
                                 IndexLine(filename, timestamp_buffer))]

\* ChunkWriter.flush on writer state (buf, counter) and storage (ch, idx)
flush(buf, counter, ch, idx) ==
    IF counter = 0
    THEN [raised |-> "none", buffer |-> buf, particle_counter |-> counter,
          chunks |-> ch, index_csv |-> idx]
    ELSE LET timestamp_buffer == Concatenate(buf.timestamps)
             df == ChunkFrame(buf)
         IN IF timestamp_buffer = <<>>
            THEN [raised |-> "IndexError", buffer |-> buf,
                  particle_counter |-> counter, chunks |-> ch, index_csv |-> idx]
            ELSE LET filename == ChunkFileName(timestamp_buffer)
                 IN [raised |-> "none", buffer |-> EmptyBuffer, particle_counter |-> 0,
                     chunks |-> ToParquet(ch, filename, df),
                     index_csv |-> ToCsv(idx, ~idx.exists,
                                         IndexLine(filename, timestamp_buffer))]

BufferAppend(buf, packet) ==
    [timestamps |-> Append(buf.timestamps, packet.timestamps),
     scattering |-> Append(buf.scattering, packet.scattering),
     spectral |-> Append(buf.spectral, packet.spectral)]

\* faulty variant: the writer flushes after every packet, not at the threshold
add_packet_eager(buf, counter, ch, idx, packet) ==
    flush(BufferAppend(buf, packet), counter + Shape0(packet.scattering), ch, idx)

\* ChunkWriter.add_packet
add_packet(buf, counter, ch, idx, packet) ==
    LET buf1 == BufferAppend(buf, packet)
        counter1 == counter + Shape0(packet.scattering)
    IN IF ReachedThreshold(counter1)
       THEN flush(buf1, counter1, ch, idx)
       ELSE [raised |-> "none", buffer |-> buf1, particle_counter |-> counter1,
             chunks |-> ch, index_csv |-> idx]

----------------------------------------------------------------------------
(* cmd_write and the wire protocol *)

\* stream.read(n) of the buffered stdin: the next n bytes, fewer only at the end
StreamRead(str, at, n) ==
    SubSeq(str, at + 1, IF at + n <= Len(str) THEN at + n ELSE Len(str))

\* read_exact(stream, n) from offset `at`: [data, at]
RECURSIVE ReadLoop(_, _, _, _)
ReadLoop(str, at, n, data) ==
    IF Len(data) < n
    THEN LET chunk == StreamRead(str, at, n - Len(data))
         IN IF chunk = <<>> THEN [data |-> <<>>, at |-> at]
            ELSE ReadLoop(str, at + Len(chunk), n, data \o chunk)
    ELSE [data |-> data, at |-> at]

read_exact(str, at, n) == ReadLoop(str, at, n, <<>>)

\* faulty variant: a payload that cannot be read is taken for the end of stream
get_packet_from_stream_eof(str, at) ==
    LET header == read_exact(str, at, 4)
    IN IF header.data = <<>> THEN [kind |-> "eof", at |-> header.at]
       ELSE LET payload == read_exact(str, header.at, UnpackU32(header.data))
            IN IF payload.data = <<>> THEN [kind |-> "eof", at |-> payload.at]
               ELSE [kind |-> "packet", at |-> payload.at,
                     packet |-> Unpickle(payload.data),
                     raw_data_length |-> Len(payload.data) + 4]

\* get_packet_from_stream() on stdin at offset `at`
get_packet_from_stream(str, at) ==
    LET header == read_exact(str, at, 4)
    IN IF header.data = <<>> THEN [kind |-> "eof", at |-> header.at]
       ELSE LET length == UnpackU32(header.data)
                payload == read_exact(str, header.at, length)
            IN IF payload.data = <<>>
               THEN [kind |-> "raise", at |-> payload.at, error |-> "ValueError"]
               ELSE [kind |-> "packet", at |-> payload.at,
                     packet |-> Unpickle(payload.data),
                     raw_data_length |-> Len(payload.data) + 4]

----------------------------------------------------------------------------
(* cmd_read *)

OverlapMask(entry, start_ts, stop_ts) ==
    entry.max_ts >= start_ts /\ entry.min_ts <= stop_ts

TimeMask(row, start_ts, stop_ts) == row.ts_0 >= start_ts /\ row.ts_0 <= stop_ts

FilterFrame(df, start_ts, stop_ts) ==
    SelectSeq(df, LAMBDA row : TimeMask(row, start_ts, stop_ts))

\* a chunk file cut to zero length: its bytes are not a parquet table
TruncatedFile == <<>>

\* faulty variant: a chunk file that cannot be read is skipped
RECURSIVE ReadChunks_skip(_, _, _, _)
ReadChunks_skip(rows, ch, start_ts, stop_ts) ==
    IF rows = <<>> THEN [raised |-> "none", results |-> <<>>, opened |-> <<>>]
    ELSE LET rest == ReadChunks_skip(Tail(rows), ch, start_ts, stop_ts)
             readable == /\ Head(rows).filename \in DOMAIN ch
                         /\ ch[Head(rows).filename] # TruncatedFile
         IN [raised |-> rest.raised,
             results |-> (IF readable
                          THEN <<FilterFrame(ch[Head(rows).filename], start_ts, stop_ts)>>
                          ELSE <<>>) \o rest.results,
             opened |-> <<Head(rows).filename>> \o rest.opened]

\* the loop over index_df[mask]: read_parquet raises on a file that is missing
\* or is not a parquet table
RECURSIVE ReadChunks(_, _, _, _)
ReadChunks(rows, ch, start_ts, stop_ts) ==
    IF rows = <<>> THEN [raised |-> "none", results |-> <<>>, opened |-> <<>>]
    ELSE IF Head(rows).filename \notin DOMAIN ch
    THEN [raised |-> "FileNotFoundError", results |-> <<>>,
          opened |-> <<Head(rows).filename>>]
    ELSE IF ch[Head(rows).filename] = TruncatedFile
    THEN [raised |-> "ArrowInvalid", results |-> <<>>,
          opened |-> <<Head(rows).filename>>]
    ELSE LET rest == ReadChunks(Tail(rows), ch, start_ts, stop_ts)
         IN [raised |-> rest.raised,
             results |-> <<FilterFrame(ch[Head(rows).filename], start_ts, stop_ts)>>
                         \o rest.results,
             opened |-> <<Head(rows).filename>> \o rest.opened]

NoResult == [raised |-> "none", returned |-> "", printed |-> "", df |-> <<>>,
             opened |-> <<>>]

cmd_read(ch, idx, start_ts, stop_ts) ==
    IF ~idx.exists
    THEN [raised |-> "FileNotFoundError", returned |-> "", printed |-> "",
          df |-> <<>>, opened |-> <<>>]
    ELSE LET index_df == ReadCsv(idx)
             selected == SelectSeq(index_df,
                                   LAMBDA entry : OverlapMask(entry, start_ts, stop_ts))
             loop == ReadChunks(selected, ch, start_ts, stop_ts)
         IN IF loop.raised # "none"
            THEN [raised |-> loop.raised, returned |-> "", printed |-> "",
                  df |-> <<>>, opened |-> loop.opened]
            ELSE IF loop.results = <<>>
            THEN [raised |-> "none", returned |-> "None",
                  printed |-> "Found nothing in that timestamp",
                  df |-> <<>>, opened |-> loop.opened]
            ELSE [raised |-> "none", returned |-> "df", printed |-> "Found particles",
                  df |-> Concatenate(loop.results), opened |-> loop.opened]

----------------------------------------------------------------------------
(* The writer and the reader used as a library (playground.py) *)

NoRead == [window |-> <<>>, result |-> NoResult]

Init ==
    /\ buffer = EmptyBuffer
    /\ particle_counter = 0
    /\ chunks = <<>>
    /\ index_csv = NoIndex
    /\ raised = "none"
    /\ last_call = "ChunkWriter"
    /\ read_out = NoRead
    /\ ingested = <<>>
    /\ writers = 1
    /\ discarded = FALSE
    /\ flushes = <<>>
    /\ stream = <<>>
    /\ pos = 0
    /\ pc = "api"
    /\ packets_written = 0
    /\ total_bytes_received = 0
    /\ stderr = <<>>

\* the writer call returned `out`; `batch` is the buffer a flush inside it saw
Apply(out, batch) ==
    /\ buffer' = out.buffer
    /\ particle_counter' = out.particle_counter
    /\ chunks' = out.chunks
    /\ index_csv' = out.index_csv
    /\ raised' = out.raised
    /\ flushes' = IF out.index_csv # index_csv THEN Append(flushes, batch) ELSE flushes

\* ChunkWriter(output_path): a fresh, empty writer on the same storage directory
NewWriter ==
    /\ pc = "api"
    /\ writers < MaxWriters
    /\ buffer' = EmptyBuffer
    /\ particle_counter' = 0
    /\ writers' = writers + 1
    /\ discarded' = (discarded \/ buffer # EmptyBuffer)
    /\ raised' = "none"
    /\ last_call' = "ChunkWriter"
    /\ read_out' = NoRead
    /\ UNCHANGED <<storage, ingested, flushes, stdin_vars>>

\* writer.add_packet(generate_packet())
AddPacket ==
    /\ pc = "api"
    /\ Len(ingested) < MaxPackets
    /\ \E tss \in TsSeqs :
          LET packet == generate_packet(tss, Len(ingested) + 1)
          IN /\ Apply(add_packet(buffer, particle_counter, chunks, index_csv, packet),
                      BufferAppend(buffer, packet))
             /\ ingested' = Append(ingested, packet)
    /\ last_call' = "add_packet"
    /\ read_out' = NoRead
    /\ UNCHANGED <<writers, discarded, stdin_vars>>

\* writer.flush()
Flush ==
    /\ pc = "api"
    /\ Apply(flush(buffer, particle_counter, chunks, index_csv), buffer)
    /\ last_call' = "flush"
    /\ read_out' = NoRead
    /\ UNCHANGED <<ingested, writers, discarded, stdin_vars>>

\* cmd_read(args) with the window [start_ts, stop_ts]
CmdRead ==
    /\ pc = "api"
    /\ \E start_ts \in TsValues, stop_ts \in TsValues :
          /\ start_ts <= stop_ts
          /\ read_out' = [window |-> <<start_ts, stop_ts>>,
                          result |-> cmd_read(chunks, index_csv, start_ts, stop_ts)]
    /\ raised' = read_out'.result.raised
    /\ last_call' = "cmd_read"
    /\ UNCHANGED <<writer, storage, ingested, writers, discarded, flushes, stdin_vars>>

Next == NewWriter \/ AddPacket \/ Flush \/ CmdRead

Spec == Init /\ [][Next]_vars

----------------------------------------------------------------------------
(* The writer fed with records of any shape *)

\* writer.add_packet(packet) with a record whose matrices disagree with its
\* timestamps
AddMismatchedPacket ==
    /\ pc = "api"
    /\ Len(ingested) < MaxPackets
    /\ \E tss \in TsSeqs, ks \in 1..2, kp \in 1..2 :
          LET packet == MismatchedPacket(tss, ks, kp, Len(ingested) + 1)
          IN /\ Mismatched(packet)
             /\ Apply(add_packet(buffer, particle_counter, chunks, index_csv, packet),
                      BufferAppend(buffer, packet))
             /\ ingested' = Append(ingested, packet)
    /\ last_call' = "add_packet"
    /\ read_out' = NoRead
    /\ UNCHANGED <<writers, discarded, stdin_vars>>

NextSchema == AddPacket \/ AddMismatchedPacket \/ Flush

SpecSchema == Init /\ [][NextSchema]_vars

----------------------------------------------------------------------------
(* cmd_write *)

\* cmd_write has constructed its ChunkWriter and is about to read stdin
InitWrite ==
    /\ buffer = EmptyBuffer
    /\ particle_counter = 0
    /\ chunks = <<>>
    /\ index_csv = NoIndex
    /\ raised = "none"
    /\ last_call = "ChunkWriter"
    /\ read_out = NoRead
    /\ ingested = <<>>
    /\ writers = 1
    /\ discarded = FALSE
    /\ flushes = <<>>
    /\ stream \in Streams
    /\ pos = 0
    /\ pc = "loop"
    /\ packets_written = 0
    /\ total_bytes_received = 0
    /\ stderr = <<>>

\* one turn of the while loop of cmd_write
CmdWriteLoop ==
    /\ pc = "loop"
    /\ LET got == get_packet_from_stream(stream, pos)
       IN /\ pos' = got.at
          /\ IF got.kind = "raise"
             THEN /\ pc' = "raised"
                  /\ raised' = got.error
                  /\ last_call' = "get_packet_from_stream"
                  /\ UNCHANGED <<writer, storage, flushes, ingested, packets_written,
                                 total_bytes_received>>
             ELSE IF got.kind = "eof"
             THEN /\ pc' = "flush"
                  /\ raised' = "none"
                  /\ last_call' = "get_packet_from_stream"
                  /\ UNCHANGED <<writer, storage, flushes, ingested, packets_written,
                                 total_bytes_received>>
             ELSE LET out == add_packet(buffer, particle_counter, chunks, index_csv,
                                        got.packet)
                  IN /\ Apply(out, BufferAppend(buffer, got.packet))
                     /\ ingested' = Append(ingested, got.packet)
                     /\ last_call' = "add_packet"
                     /\ IF out.raised = "none"
                        THEN /\ pc' = "loop"
                             /\ packets_written' = packets_written + 1
                             /\ total_bytes_received' =
                                    total_bytes_received + got.raw_data_length
                        ELSE /\ pc' = "raised"
                             /\ UNCHANGED <<packets_written, total_bytes_received>>
    /\ UNCHANGED <<read_out, writers, discarded, stream, stderr>>

\* the flush after the loop and the report on stderr
CmdWriteFlush ==
    /\ pc = "flush"
    /\ LET out == flush(buffer, particle_counter, chunks, index_csv)
       IN /\ Apply(out, buffer)
          /\ IF out.raised = "none"
             THEN /\ pc' = "done"
                  /\ stderr' = Append(stderr, <<"Wrote to storage", packets_written,
                                                "packets", total_bytes_received, "bytes">>)
             ELSE /\ pc' = "raised"
                  /\ UNCHANGED stderr
    /\ last_call' = "flush"
    /\ UNCHANGED <<read_out, ingested, writers, discarded, stream, pos,
                   packets_written, total_bytes_received>>

NextWrite == CmdWriteLoop \/ CmdWriteFlush

SpecWrite == InitWrite /\ [][NextWrite]_vars

----------------------------------------------------------------------------
(* The storage directory damaged between writing and reading *)

\* a chunk file is removed from the storage directory
RemoveChunk ==
    /\ pc = "api"
    /\ \E f \in DOMAIN chunks :
          chunks' = [g \in DOMAIN chunks \ {f} |-> chunks[g]]
    /\ raised' = "none"
    /\ last_call' = "unlink"
    /\ read_out' = NoRead
    /\ UNCHANGED <<writer, index_csv, ingested, writers, discarded, flushes, stdin_vars>>

\* a chunk file is cut to zero length
TruncateChunk ==
    /\ pc = "api"
    /\ \E f \in DOMAIN chunks :
          /\ chunks[f] # TruncatedFile
          /\ chunks' = [chunks EXCEPT ![f] = TruncatedFile]
    /\ raised' = "none"
    /\ last_call' = "truncate"
    /\ read_out' = NoRead
    /\ UNCHANGED <<writer, index_csv, ingested, writers, discarded, flushes, stdin_vars>>

NextDamage == AddPacket \/ Flush \/ RemoveChunk \/ TruncateChunk \/ CmdRead

SpecDamage == Init /\ [][NextDamage]_vars

----------------------------------------------------------------------------
(* The writer on a storage directory whose writes can fail *)

\* where a flush meets an I/O error: nowhere, in to_parquet before the chunk
\* file is created, in to_parquet with the file left cut off, or in to_csv
Faults == {"none", "to_parquet", "to_parquet_partial", "to_csv"}

\* the OSError raised for the file of that name
OSError(filename) == "OSError: " \o filename

\* faulty variant: the buffer and the counter are reset in a finally clause
flush_io_finally(buf, counter, ch, idx, fault) ==
    LET out == flush(buf, counter, ch, idx)
        filename == ChunkFileName(Concatenate(buf.timestamps))
    IN IF counter = 0 \/ Concatenate(buf.timestamps) = <<>> \/ fault = "none"
       THEN out
       ELSE [raised |-> OSError(IF fault = "to_csv" THEN "index.csv" ELSE filename),
             buffer |-> EmptyBuffer, particle_counter |-> 0,
             chunks |-> IF fault = "to_csv" THEN out.chunks ELSE ch,
             index_csv |-> idx]

\* faulty variant: the index row is appended before the chunk file is written
flush_io_index_first(buf, counter, ch, idx, fault) ==
    LET out == flush(buf, counter, ch, idx)
        filename == ChunkFileName(Concatenate(buf.timestamps))
    IN IF counter = 0 \/ Concatenate(buf.timestamps) = <<>> \/ fault = "none"
       THEN out
       ELSE [raised |-> OSError(IF fault = "to_csv" THEN "index.csv" ELSE filename),
             buffer |-> buf, particle_counter |-> counter,
             chunks |-> IF fault = "to_parquet_partial"
                        THEN ToParquet(ch, filename, TruncatedFile) ELSE ch,
             index_csv |-> IF fault = "to_csv" THEN idx ELSE out.index_csv]

\* ChunkWriter.flush when to_parquet or to_csv can raise: the exception leaves
\* flush at the failing line, the lines after it are not executed
flush_io(buf, counter, ch, idx, fault) ==
    IF counter = 0 \/ Concatenate(buf.timestamps) = <<>> \/ fault = "none"
    THEN flush(buf, counter, ch, idx)
    ELSE LET filename == ChunkFileName(Concatenate(buf.timestamps))
             left(error, ch1) ==
                 [raised |-> error, buffer |-> buf, particle_counter |-> counter,
                  chunks |-> ch1, index_csv |-> idx]
         IN IF fault = "to_parquet" THEN left(OSError(filename), ch)
            ELSE IF fault = "to_parquet_partial"
            THEN left(OSError(filename), ToParquet(ch, filename, TruncatedFile))
            ELSE left(OSError("index.csv"), ToParquet(ch, filename, ChunkFrame(buf)))

\* ChunkWriter.add_packet on such a directory
add_packet_io(buf, counter, ch, idx, packet, fault) ==
    LET buf1 == BufferAppend(buf, packet)
        counter1 == counter + Shape0(packet.scattering)
    IN IF ReachedThreshold(counter1)
       THEN flush_io(buf1, counter1, ch, idx, fault)
       ELSE [raised |-> "none", buffer |-> buf1, particle_counter |-> counter1,
             chunks |-> ch, index_csv |-> idx]

\* writer.add_packet(generate_packet())
AddPacketIO ==
    /\ pc = "api"
    /\ Len(ingested) < MaxPackets
    /\ \E tss \in TsSeqs, fault \in Faults :
          LET packet == generate_packet(tss, Len(ingested) + 1)
          IN /\ Apply(add_packet_io(buffer, particle_counter, chunks, index_csv,
                                    packet, fault),
                      BufferAppend(buffer, packet))
             /\ ingested' = Append(ingested, packet)
    /\ last_call' = "add_packet"
    /\ read_out' = NoRead
    /\ UNCHANGED <<writers, discarded, stdin_vars>>

\* writer.flush()
FlushIO ==
    /\ pc = "api"
    /\ \E fault \in Faults :
          Apply(flush_io(buffer, particle_counter, chunks, index_csv, fault), buffer)
    /\ last_call' = "flush"
    /\ read_out' = NoRead
    /\ UNCHANGED <<ingested, writers, discarded, stdin_vars>>

NextFault == AddPacketIO \/ FlushIO \/ CmdRead

SpecFault == Init /\ [][NextFault]_vars

----------------------------------------------------------------------------
(* Vocabulary of the properties *)

Last(seq) == seq[Len(seq)]

IndexEntries(idx) == IF idx.exists THEN ReadCsv(idx) ELSE <<>>

\* the closed intervals [lo, hi] and [s, e] have a point in common
Overlaps(lo, hi, s, e) == hi >= s /\ lo <= e

Windows == {w \in (0..(MaxTs + 1)) \X (0..(MaxTs + 1)) : w[1] <= w[2]}

Set(seq) == {seq[k] : k \in 1..Len(seq)}

\* the rows a well-formed record stands for: particle by particle its
\* timestamp and its two matrices, written out row-major
RecordRows(packet) ==
    [i \in 1..Len(packet.timestamps) |->
        [ts_0 |-> packet.timestamps[i].v,
         scat |-> FlattenRows(packet.scattering[i].v),
         spec |-> FlattenRows(packet.spectral[i].v),
         n |-> packet.timestamps[i].n]]

RECURSIVE RowsOf(_)
RowsOf(packets) ==
    IF packets = <<>> THEN <<>> ELSE RecordRows(Head(packets)) \o RowsOf(Tail(packets))

\* the records a buffer holds, in the order they were appended
PacketsOf(buf) ==
    [i \in 1..Len(buf.timestamps) |->
        [timestamps |-> buf.timestamps[i], scattering |-> buf.scattering[i],
         spectral |-> buf.spectral[i]]]

Count(seq, x) == Cardinality({k \in 1..Len(seq) : seq[k] = x})

\* the same rows with the same multiplicities, in any order
SameCollection(a, b) ==
    /\ Len(a) = Len(b)
    /\ \A k \in 1..Len(a) : Count(a, a[k]) = Count(b, a[k])

InWindow(t, w) == w[1] <= t /\ t <= w[2]

\* no two index entries name the same chunk file
NoCollision ==
    LET entries == IndexEntries(index_csv)
    IN \A i, j \in 1..Len(entries) :
          i # j => entries[i].filename # entries[j].filename

\* the step is an add_packet call that returned normally
AddReturned == last_call' = "add_packet" /\ ingested' # ingested /\ raised' = "none"

----------------------------------------------------------------------------
(* C1 *)

\* C1 (flush threshold): an add_packet that brings the particle counter to
\* CHUNK_PARTICLES or above performs a flush before it returns (one more index
\* entry, buffer emptied) and leaves the counter at 0; after any add_packet that
\* returned, the counter is strictly below CHUNK_PARTICLES.
C1_FlushThreshold ==
    [][AddReturned =>
          /\ particle_counter + Shape0(Last(ingested').scattering) >= CHUNK_PARTICLES
                => /\ particle_counter' = 0
                   /\ buffer' = EmptyBuffer
                   /\ Len(IndexEntries(index_csv')) = Len(IndexEntries(index_csv)) + 1
          /\ particle_counter' < CHUNK_PARTICLES]_vars

\* an add_packet of fewer than CHUNK_PARTICLES particles has just crossed the
\* threshold together with what was buffered, and was flushed
C1_Witness ==
    /\ last_call = "add_packet"
    /\ raised = "none"
    /\ Shape0(Last(ingested).scattering) < CHUNK_PARTICLES
    /\ particle_counter = 0
    /\ index_csv.exists

----------------------------------------------------------------------------
(* C2 *)

RangeCorrect(w) ==
    LET r == cmd_read(chunks, index_csv, w[1], w[2])
        entries == IndexEntries(index_csv)
    IN /\ r.raised = "none"
       /\ \A f \in DOMAIN chunks :
             /\ \A k \in 1..Len(chunks[f]) :
                   (chunks[f][k] \in Set(r.df)) <=> InWindow(chunks[f][k].ts_0, w)
             /\ \A i \in 1..Len(entries) :
                   (/\ entries[i].filename = f
                    /\ \A j \in (i + 1)..Len(entries) : entries[j].filename # f
                    /\ ~Overlaps(entries[i].min_ts, entries[i].max_ts, w[1], w[2]))
                     => f \notin Set(r.opened)

\* C2 (range correctness): in every storage state and for every window
\* [s, e], a row of a chunk is in the result of cmd_read(s, e) exactly when its
\* timestamp lies in [s, e], and a chunk whose index entry (the entry written
\* by the flush that wrote the chunk file) does not overlap the window is not
\* opened.
C2_RangeCorrectness == index_csv.exists => \A w \in Windows : RangeCorrect(w)

\* the same statement for the storage states in which every index entry names
\* a chunk file of its own
C2_WithoutCollision == C2_RangeCorrectness \/ ~NoCollision

----------------------------------------------------------------------------
(* C3 *)

\* C3 (round trip): after a sequence of add_packet calls and a final flush, the
\* query over the full time span of the appended records returns exactly the
\* appended rows, none missing and none twice.
C3_RoundTrip ==
    (last_call = "flush" /\ raised = "none" /\ ~discarded /\ ingested # <<>>) =>
        LET rows == RowsOf(ingested)
            span == {rows[k].ts_0 : k \in 1..Len(rows)}
            lo == CHOOSE t \in span : \A u \in span : t <= u
            hi == CHOOSE t \in span : \A u \in span : t >= u
            r == cmd_read(chunks, index_csv, lo, hi)
        IN r.raised = "none" /\ r.returned = "df" /\ SameCollection(r.df, rows)

C3_WithoutCollision == C3_RoundTrip \/ ~NoCollision

----------------------------------------------------------------------------
(* C5 *)

\* C5 (index/chunk consistency): in every reachable storage state every index
\* entry names a chunk file whose ts_0 column has the entry's min_ts as its
\* minimum and the entry's max_ts as its maximum, and min_ts <= max_ts.
C5_IndexChunkConsistency ==
    LET entries == IndexEntries(index_csv)
    IN \A i \in 1..Len(entries) :
          /\ entries[i].filename \in DOMAIN chunks
          /\ LET ts_0 == {row.ts_0 : row \in Set(chunks[entries[i].filename])}
             IN /\ entries[i].min_ts \in ts_0
                /\ entries[i].max_ts \in ts_0
                /\ \A t \in ts_0 : entries[i].min_ts <= t /\ t <= entries[i].max_ts
          /\ entries[i].min_ts <= entries[i].max_ts

C5_WithoutCollision == C5_IndexChunkConsistency \/ ~NoCollision

----------------------------------------------------------------------------
(* C6 *)

\* C6 (schema error leaves the buffer unchanged): add_packet with a record whose
\* scattering or spectral leading dimension differs from the length of its
\* timestamps fails with an error and leaves the buffered records, the particle
\* counter and the storage directory exactly as they were.
C6_SchemaErrorKeepsBuffer ==
    [][(last_call' = "add_packet" /\ ingested' # ingested
            /\ Mismatched(Last(ingested')))
          => /\ raised' # "none"
             /\ buffer' = buffer
             /\ particle_counter' = particle_counter
             /\ UNCHANGED storage]_vars

----------------------------------------------------------------------------
(* C7 *)

\* C7 (empty result is not an error): on the storage directory left by any
\* sequence of add_packet and flush calls, the empty one included, a query
\* whose window overlaps no index entry completes without an error, reports
\* that nothing was found and returns an empty result.
C7_EmptyIsNotAnError ==
    LET entries == IndexEntries(index_csv)
    IN \A w \in Windows :
          (\A i \in 1..Len(entries) :
              ~Overlaps(entries[i].min_ts, entries[i].max_ts, w[1], w[2]))
            => LET r == cmd_read(chunks, index_csv, w[1], w[2])
               IN /\ r.raised = "none"
                  /\ r.returned = "None"
                  /\ r.printed = "Found nothing in that timestamp"
                  /\ r.df = <<>>

\* the same statement once a flush has created index.csv
C7_WithIndexFile == C7_EmptyIsNotAnError \/ ~index_csv.exists

----------------------------------------------------------------------------
(* C8 *)

BatchTs(batch) == {run.v : run \in Set(Concatenate(batch.timestamps))}

\* every flushed chunk lies wholly inside or wholly outside the window
WholeChunks(w) ==
    \A i \in 1..Len(flushes) :
        \/ \A t \in BatchTs(flushes[i]) : InWindow(t, w)
        \/ \A t \in BatchTs(flushes[i]) : ~InWindow(t, w)

\* the rows of the flushed chunks inside the window, in ingestion order
RECURSIVE IngestedInside(_, _)
IngestedInside(batches, w) ==
    IF batches = <<>> THEN <<>>
    ELSE (IF \A t \in BatchTs(Head(batches)) : InWindow(t, w)
          THEN RowsOf(PacketsOf(Head(batches))) ELSE <<>>)
         \o IngestedInside(Tail(batches), w)

\* C8 (order preservation): for every window that contains only whole chunks,
\* the rows of the query result are the ingested rows of those chunks in
\* ingestion order: records in append order, rows in their order in the record.
C8_OrderPreservation ==
    index_csv.exists =>
        \A w \in Windows :
            WholeChunks(w) =>
                cmd_read(chunks, index_csv, w[1], w[2]).df = IngestedInside(flushes, w)

C8_WithoutCollision == C8_OrderPreservation \/ ~NoCollision

----------------------------------------------------------------------------
(* C4 *)

\* the timestamps of the records that are buffered and not flushed
TailTs == Concatenate(buffer.timestamps)

\* the window w meets the time range of the buffered tail and the time range
\* of nothing that any flush has written
OnlyTail(w) ==
    /\ Overlaps(ArrayMin(TailTs), ArrayMax(TailTs), w[1], w[2])
    /\ \A i \in 1..Len(flushes) :
          LET ts == Concatenate(flushes[i].timestamps)
          IN ~Overlaps(ArrayMin(ts), ArrayMax(ts), w[1], w[2])

\* records are buffered behind an earlier flush, and a query over a window
\* that meets only their time range finds nothing
C4_TailInvisible ==
    (buffer # EmptyBuffer /\ flushes # <<>>) =>
        \A w \in Windows :
            OnlyTail(w) =>
                LET r == cmd_read(chunks, index_csv, w[1], w[2])
                IN r.raised = "none" /\ r.returned = "None" /\ r.df = <<>>

\* only a flush persists: an add_packet that stays below the threshold and the
\* replacement of the writer by a new one leave the storage directory as it was
C4_OnlyFlushPersists ==
    /\ (/\ AddReturned
        /\ particle_counter + Shape0(Last(ingested').scattering) < CHUNK_PARTICLES)
          => UNCHANGED storage /\ buffer' # EmptyBuffer
    /\ last_call' = "ChunkWriter" => UNCHANGED storage

\* C4 (tail durability): records appended after the last automatic flush are
\* not retrievable before an explicit flush: a query whose window overlaps only
\* their time range returns an empty result, appending them does not change
\* the storage directory, and discarding the writer does not persist them.
C4_TailDurability == []C4_TailInvisible /\ [][C4_OnlyFlushPersists]_vars

\* a query over the tail's time range has just returned nothing while the tail
\* was buffered behind a flushed chunk
C4_Witness ==
    /\ last_call = "cmd_read"
    /\ buffer # EmptyBuffer
    /\ flushes # <<>>
    /\ OnlyTail(read_out.window)
    /\ read_out.result.returned = "None"

----------------------------------------------------------------------------
(* C9 *)

\* at the frame boundary `pos` the stream holds a whole length prefix and
\* fewer payload bytes than the prefix declares
ShortPayload ==
    /\ Len(stream) - pos >= 4
    /\ Len(stream) - pos - 4 < UnpackU32(SubSeq(stream, pos + 1, pos + 4))

\* C9 (protocol error on payload): when the length prefix is followed by fewer
\* payload bytes than it declares, none included, the turn of the loop raises
\* and cmd_write takes no further step: nothing is decoded or appended, and the
\* final flush of a normal end of stream is not reached.
C9_ShortPayloadRaises ==
    [][/\ pc # "raised"
       /\ (pc = "loop" /\ ShortPayload)
            => /\ pc' = "raised"
               /\ raised' = "ValueError"
               /\ UNCHANGED <<writer, storage, ingested, packets_written, stderr>>]_vars

\* a frame was ingested and the payload of the next one was cut short
C9_Witness ==
    /\ pc = "raised"
    /\ raised = "ValueError"
    /\ packets_written >= 1
    /\ Len(stream) % FrameLen >= 4

----------------------------------------------------------------------------
(* C10 *)

\* the stream is a sequence of whole frames
WellFormed == Len(stream) % FrameLen = 0

\* the records of the frames of the stream, in stream order
SentRecords ==
    [i \in 1..(Len(stream) \div FrameLen) |->
        Unpickle(SubSeq(stream, (i - 1) * FrameLen + 5, i * FrameLen))]

\* some index entry names a chunk file that holds every row of the record
Persisted(packet) ==
    LET entries == IndexEntries(index_csv)
    IN \E i \in 1..Len(entries) :
          /\ entries[i].filename \in DOMAIN chunks
          /\ Set(RecordRows(packet)) \subseteq Set(chunks[entries[i].filename])

\* C10 (write mode persists everything): when cmd_write has read a well-formed
\* stream to its end and returned, every record of the stream was appended in
\* stream order, the buffer is empty with counter 0, and every record is
\* contained in a chunk named by the index.
C10_WriteModePersistsAll ==
    (pc = "done" /\ WellFormed) =>
        /\ ingested = SentRecords
        /\ particle_counter = 0
        /\ buffer = EmptyBuffer
        /\ \A k \in 1..Len(ingested) : Persisted(ingested[k])

C10_WithoutCollision == C10_WriteModePersistsAll \/ ~NoCollision

----------------------------------------------------------------------------
(* C11 *)

\* the last line on stderr gives the number of records and of bytes that
\* cmd_write has processed
CountsReported ==
    /\ stderr # <<>>
    /\ Last(stderr)[2] = packets_written
    /\ Last(stderr)[4] = total_bytes_received

\* C11 (write-mode failure reporting): when an error leaves cmd_write after k
\* records were processed, the number of records and of bytes processed so far
\* has been reported on stderr.
C11_FailureReportsCounts == pc = "raised" => CountsReported

\* what the code does report: the counts of a run that reached the end of the
\* stream and flushed
C11_ReportOnSuccess == pc = "done" => CountsReported

----------------------------------------------------------------------------
(* C12 *)

\* the step is a flush that finds a non-zero counter: an explicit flush() of
\* a writer that has counted particles, or the flush inside an add_packet that
\* reaches the threshold
FlushFindsParticles ==
    \/ last_call' = "flush" /\ particle_counter # 0
    \/ /\ last_call' = "add_packet"
       /\ ingested' # ingested
       /\ particle_counter + Shape0(Last(ingested').scattering) >= CHUNK_PARTICLES

\* such a flush appends one entry behind the lines that were there, and the
\* header in front of it when there was no index file; no other step touches
\* the index
C12_AppendsOneRow ==
    IF FlushFindsParticles
    THEN /\ index_csv'.exists
         /\ Len(index_csv'.lines) =
                Len(index_csv.lines) + (IF index_csv.exists THEN 1 ELSE 2)
         /\ SubSeq(index_csv'.lines, 1, Len(index_csv.lines)) = index_csv.lines
         /\ ~index_csv.exists => index_csv'.lines[1] = CsvHeader
         /\ Last(index_csv'.lines) # CsvHeader
         /\ IndexEntries(index_csv') =
                Append(IndexEntries(index_csv), Last(IndexEntries(index_csv')))
    ELSE index_csv' = index_csv

\* the header is the first line and no other; the entries are those of the
\* performed flushes, in the order of the flushes
C12_OneRowPerFlush ==
    /\ ~index_csv.exists => index_csv.lines = <<>>
    /\ index_csv.exists =>
          /\ index_csv.lines[1] = CsvHeader
          /\ Count(index_csv.lines, CsvHeader) = 1
    /\ LET entries == IndexEntries(index_csv)
       IN /\ Len(entries) = Len(flushes)
          /\ \A i \in 1..Len(entries) :
                /\ entries[i].min_ts \in BatchTs(flushes[i])
                /\ entries[i].max_ts \in BatchTs(flushes[i])
                /\ \A t \in BatchTs(flushes[i]) :
                      entries[i].min_ts <= t /\ t <= entries[i].max_ts

\* C12 (index is append-only, one row per flush): every flush that finds a
\* non-zero counter appends exactly one entry at the end of the index and
\* leaves the earlier entries unchanged and in place; the header is written
\* once, by the first write to a directory without an index file; the index
\* holds one entry per performed flush, in chunk-creation order.
C12_IndexAppendOnly == []C12_OneRowPerFlush /\ [][C12_AppendsOneRow]_vars

\* two flushes have been performed: the second one found the index file and
\* appended its entry behind the first
C12_Witness ==
    /\ Len(flushes) = 2
    /\ Len(index_csv.lines) = 3
    /\ index_csv.lines[2] # index_csv.lines[3]

----------------------------------------------------------------------------
(* C13 *)

\* the first timestamp of the buffer a flush wrote
LeadTs(batch) == Concatenate(batch.timestamps)[1].v

\* the chunk file name is a function of the leading timestamp: flushes with
\* the same leading timestamp have index entries with the same file name, and
\* the directory holds one chunk file per leading timestamp
C13_NameFromLeadTs ==
    LET entries == IndexEntries(index_csv)
    IN /\ \A i, j \in 1..Len(flushes) :
             LeadTs(flushes[i]) = LeadTs(flushes[j])
                => entries[i].filename = entries[j].filename
       /\ DOMAIN chunks = {entries[i].filename : i \in 1..Len(entries)}
       /\ Cardinality(DOMAIN chunks) =
              Cardinality({LeadTs(flushes[i]) : i \in 1..Len(flushes)})

\* a flush whose leading timestamp is that of an earlier flush returns
\* normally, and the file of that name then holds the rows of this flush and
\* no others; the other chunk files stay as they were
C13_SecondReplacesFirst ==
    (/\ FlushFindsParticles
     /\ flushes' # flushes
     /\ \E i \in 1..Len(flushes) : LeadTs(flushes[i]) = LeadTs(Last(flushes')))
      => LET name == Last(IndexEntries(index_csv')).filename
         IN /\ raised' = "none"
            /\ name \in DOMAIN chunks
            /\ DOMAIN chunks' = DOMAIN chunks
            /\ chunks'[name] = RowsOf(PacketsOf(Last(flushes')))
            /\ \A f \in DOMAIN chunks \ {name} : chunks'[f] = chunks[f]

\* C13 (chunk identity collision): the chunk file name is a deterministic
\* function of the first timestamp of the flushed buffer; a flush with the
\* leading timestamp of an earlier flush raises no error and its chunk file
\* replaces the earlier one: the directory then holds a single file of that
\* name, with the rows of the second flush only.
C13_CollisionOverwrites == []C13_NameFromLeadTs /\ [][C13_SecondReplacesFirst]_vars

\* two flushes of different rows had the same leading timestamp, and the one
\* chunk file holds the rows of the second
C13_Witness ==
    /\ Len(flushes) = 2
    /\ LeadTs(flushes[1]) = LeadTs(flushes[2])
    /\ RowsOf(PacketsOf(flushes[1])) # RowsOf(PacketsOf(flushes[2]))
    /\ Cardinality(DOMAIN chunks) = 1
    /\ \A f \in DOMAIN chunks : chunks[f] = RowsOf(PacketsOf(flushes[2]))

----------------------------------------------------------------------------
(* C14 *)

\* the index entries whose time range meets the window, in index order
Selected(w) ==
    SelectSeq(IndexEntries(index_csv),
              LAMBDA entry : Overlaps(entry.min_ts, entry.max_ts, w[1], w[2]))

\* the chunk file the entry names is missing or is not a parquet table
Unreadable(entry) ==
    \/ entry.filename \notin DOMAIN chunks
    \/ chunks[entry.filename] = TruncatedFile

\* C14 (query-time I/O error is fatal): when a chunk file selected by the
\* overlap test is missing or corrupt, cmd_read ends in an error at the first
\* such chunk: it opens no chunk after it and returns neither the rows of the
\* other chunks nor an empty result.
C14_UnreadableChunkIsFatal ==
    \A w \in Windows :
        LET sel == Selected(w)
            bad == {i \in 1..Len(sel) : Unreadable(sel[i])}
        IN bad # {} =>
              LET first == CHOOSE i \in bad : \A j \in bad : i <= j
                  r == cmd_read(chunks, index_csv, w[1], w[2])
              IN /\ r.raised \in {"FileNotFoundError", "ArrowInvalid"}
                 /\ r.returned = ""
                 /\ r.printed = ""
                 /\ r.df = <<>>
                 /\ r.opened = [j \in 1..first |-> sel[j].filename]

\* a query read one chunk and failed at the next, whose file was damaged
C14_Witness ==
    /\ last_call = "cmd_read"
    /\ read_out.result.raised \in {"FileNotFoundError", "ArrowInvalid"}
    /\ index_csv.exists
    /\ Len(read_out.result.opened) = 2
    /\ ~Unreadable(Selected(read_out.window)[1])
    /\ Unreadable(Selected(read_out.window)[2])

----------------------------------------------------------------------------
(* C15 *)

\* C15 (flush with a zero counter is a no-op, flush is idempotent): a flush()
\* that finds the counter at 0 returns normally, writes no chunk file, appends
\* no index entry and leaves buffer and counter as they were; a flush() that
\* directly follows a flush() that returned leaves the writer and the storage
\* directory as the first one left them.
C15_FlushIdempotent ==
    [][/\ (last_call' = "flush" /\ particle_counter = 0)
             => raised' = "none" /\ UNCHANGED <<writer, storage>>
       /\ (last_call = "flush" /\ raised = "none" /\ last_call' = "flush")
             => raised' = "none" /\ UNCHANGED <<writer, storage>>]_vars

\* flush() was called on a writer whose only record had already been flushed
\* by add_packet at the threshold, and nothing was added to the one chunk
C15_Witness ==
    /\ last_call = "flush"
    /\ raised = "none"
    /\ Len(ingested) = 1
    /\ Shape0(ingested[1].scattering) >= CHUNK_PARTICLES
    /\ particle_counter = 0
    /\ Len(IndexEntries(index_csv)) = 1
    /\ Cardinality(DOMAIN chunks) = 1

----------------------------------------------------------------------------
(* C16 *)

\* the bytes of the stream that have not been consumed
Unread == Len(stream) - pos

\* the turn of the loop took the stream to be at its end
EndOfStreamSeen == pc = "loop" /\ pc' = "flush"

\* C16 (end of stream only on a zero-length read of the prefix): a turn of
\* the loop ends ingestion normally exactly when the stream yields no byte at
\* the frame boundary; a prefix cut off after 1 to 3 bytes and a prefix with
\* no readable payload behind it make the turn fail.
C16_EndOfStreamOnlyAtBoundary ==
    [][pc = "loop" =>
          /\ EndOfStreamSeen <=> Unread = 0
          /\ (Unread \in 1..3 \/ ShortPayload) => pc' = "raised"]_vars

\* the part of the claim the code keeps: no byte left at a frame boundary is the
\* end of the stream, and a whole prefix without its payload is an error
C16_WholePrefix ==
    [][pc = "loop" =>
          /\ Unread = 0 => EndOfStreamSeen
          /\ ShortPayload => pc' = "raised"]_vars

----------------------------------------------------------------------------
(* C17 *)

OSErrors ==
    {OSError("index.csv")} \cup {OSError(FloatStr(t) \o ".parquet") : t \in TsValues}

\* the step is a writer call that an I/O error left
WriteFailed == last_call' \in {"flush", "add_packet"} /\ raised' \in OSErrors

\* the records the writer holds when the flush inside the call begins
HeldBy(step_ingested) ==
    IF step_ingested # ingested THEN BufferAppend(buffer, Last(step_ingested))
    ELSE buffer

\* the error reaches the caller with the records of the failed flush still
\* buffered and counted, the index as it was, no other chunk file touched, and
\* the chunk file written before a failing index append still on disk
C17_NoRollbackNoReset ==
    WriteFailed =>
        LET held == HeldBy(ingested')
            name == ChunkFileName(Concatenate(held.timestamps))
        IN /\ buffer' = held
           /\ buffer' # EmptyBuffer
           /\ particle_counter' = Shape0(Concatenate(held.scattering))
           /\ particle_counter' > 0
           /\ index_csv' = index_csv
           /\ DOMAIN chunks \subseteq DOMAIN chunks'
           /\ DOMAIN chunks' \subseteq DOMAIN chunks \cup {name}
           /\ \A f \in DOMAIN chunks \ {name} : chunks'[f] = chunks[f]
           /\ raised' = OSError("index.csv") =>
                 /\ name \in DOMAIN chunks'
                 /\ chunks'[name] = RowsOf(PacketsOf(held))

\* a writer call that returns has either performed its flush completely or
\* written nothing: a failure is never absorbed inside the writer
C17_ReturnsOnlyWhenDone ==
    (last_call' \in {"flush", "add_packet"} /\ raised' = "none") =>
        \/ UNCHANGED storage
        \/ /\ particle_counter' = 0
           /\ buffer' = EmptyBuffer
           /\ Len(IndexEntries(index_csv')) = Len(IndexEntries(index_csv)) + 1
           /\ Last(IndexEntries(index_csv')).filename \in DOMAIN chunks'

\* C17 (storage I/O failure during flush): when writing the chunk file or
\* appending the index entry fails, the error propagates to the caller of
\* flush/add_packet, nothing is rolled back (a chunk file already written
\* stays on disk) and buffer and counter are not reset, so the records of the
\* failed flush are still buffered; the writer does not retry.
C17_FailedFlushKeepsRecords ==
    [][C17_NoRollbackNoReset /\ C17_ReturnsOnlyWhenDone]_vars

\* the index append of a flush failed: the chunk file is on disk without an
\* index entry and its records are still buffered
C17_Witness ==
    /\ raised = OSError("index.csv")
    /\ buffer # EmptyBuffer
    /\ particle_counter > 0
    /\ LET name == ChunkFileName(Concatenate(buffer.timestamps))
       IN /\ name \in DOMAIN chunks
          /\ chunks[name] = RowsOf(PacketsOf(buffer))
          /\ \A i \in 1..Len(IndexEntries(index_csv)) :
                IndexEntries(index_csv)[i].filename # name

----------------------------------------------------------------------------
(* C18 *)

\* the number of particles of a record
Particles(packet) == Shape0(packet.timestamps)

RECURSIVE TotalParticles(_)
TotalParticles(packets) ==
    IF packets = <<>> THEN 0
    ELSE Particles(Head(packets)) + TotalParticles(Tail(packets))

\* the number of rows of a data frame
FrameRows(df) == Shape0(df)

\* the records of the performed flushes, flush after flush
RECURSIVE FlushedPackets(_)
FlushedPackets(batches) ==
    IF batches = <<>> THEN <<>>
    ELSE PacketsOf(Head(batches)) \o FlushedPackets(Tail(batches))

\* every appended record is in one flush or in the buffer, once; the rows of
\* all flushes and the counter add up to the appended particles
C18_EveryRecordOnce ==
    ~discarded =>
        /\ FlushedPackets(flushes) \o PacketsOf(buffer) = ingested
        /\ TotalParticles(FlushedPackets(flushes)) + particle_counter
               = TotalParticles(ingested)
        /\ particle_counter = TotalParticles(PacketsOf(buffer))

\* the chunk a flush writes has as many rows as the records appended since
\* the previous flush have particles
C18_ChunkRowCount ==
    (FlushFindsParticles /\ ~discarded') =>
        LET since == SubSeq(ingested', Len(FlushedPackets(flushes)) + 1, Len(ingested'))
            name == Last(IndexEntries(index_csv')).filename
        IN /\ flushes' = Append(flushes, Last(flushes'))
           /\ PacketsOf(Last(flushes')) = since
           /\ FrameRows(chunks'[name]) = TotalParticles(since)

\* C18 (conservation of particles): after any sequence of add_packet and
\* flush calls every appended record has been handed to exactly one flush or
\* is still buffered; the row counts written by the flushes plus the particle
\* counter equal the particles of all appended records; each chunk has as
\* many rows as the records appended since the previous flush have particles.
C18_Conservation == []C18_EveryRecordOnce /\ [][C18_ChunkRowCount]_vars

\* one record went into a first chunk, a second one into a second chunk, and
\* the two chunks have different numbers of rows
C18_Witness ==
    /\ ~discarded
    /\ Len(flushes) = 2
    /\ particle_counter = 0
    /\ Len(ingested) = 2
    /\ Particles(ingested[1]) # Particles(ingested[2])

----------------------------------------------------------------------------
(* C19 *)

\* the file names the index entries carry
IndexedNames == {IndexEntries(index_csv)[i].filename : i \in 1..Len(IndexEntries(index_csv))}

====
